---- MODULE Spec2Model ----
(***************************************************************************)
(* A model of the alx(4) FreeBSD driver core in if_alx.c: the transmit     *)
(* descriptor ring (alx_xmit, alx_start_locked), the interrupt filter and  *)
(* the deferred link task (alx_irq_legacy, alx_link_task), the link state  *)
(* machine (alx_update_link) and the bring-up sequence (alx_init_locked,   *)
(* alx_stop, alx_reset, alx_intr_enable, alx_intr_disable).                *)
(*                                                                         *)
(* A 32-bit register or mask is the set of the names of its set bits.      *)
(* Functions of the hardware layer (alx_hw.c) leave a named entry in the   *)
(* log `ops`; their result, where the driver tests it, is an input.        *)
(***************************************************************************)
EXTENDS Integers, Sequences, FiniteSets, TLC

(* ---- bounds of the model ---- *)
tx_ringsz == 4      \* ring capacity (256 in alx_init_sw; 4 is the spec's test value)
MaxPkts == 3        \* packets the network stack hands to the driver
MaxQueue == 2       \* length of the interface send queue
MaxRetry == 2       \* collapse-and-retry rounds followed inside one alx_xmit
MaxIrqSem == 3      \* largest value of irq_sem followed
MaxRun == 2         \* longest run of identical link-up reports counted

MaxSegs == tx_ringsz - 1   \* segment counts the DMA loader may report

NULL == 0
Slots == 0 .. (tx_ringsz - 1)
Pkts == 1 .. MaxPkts

(* ---- interrupt status / mask bits ---- *)
ALX_ISR_DIS == "DIS"
ALX_ISR_PHY == "PHY"
ALX_ISR_TX_Q0 == "TX_Q0"
ALX_ISR_RX_Q0 == "RX_Q0"
ALX_ISR_MISC == {"MISC"}
AllBits == {"DIS", "PHY", "TX_Q0", "RX_Q0", "MISC"}
Causes == {"PHY", "TX_Q0"}          \* causes the device is let to assert

IFF_DRV_RUNNING == "RUNNING"
IFF_DRV_OACTIVE == "OACTIVE"

(* ---- encoded PHY speed/duplex reports: speed + duplex ---- *)
PhySpeeds == {10, 1000}
PhyEncoded == {s + d : s \in PhySpeeds, d \in {0, 1}}
NoReport == [error |-> TRUE, link_up |-> FALSE, speed |-> 0, mac_error |-> FALSE]
PhyReports ==
    {NoReport}
    \cup {[error |-> FALSE, link_up |-> TRUE, speed |-> e, mac_error |-> FALSE] :
             e \in PhyEncoded}
    \cup {[error |-> FALSE, link_up |-> FALSE, speed |-> 0, mac_error |-> f] :
             f \in BOOLEAN}

VARIABLES
    (* struct alx_softc / struct alx_hw / struct ifnet *)
    irq_sem,        \* sc->irq_sem
    imask,          \* hw->imask
    link_up,        \* hw->link_up
    link_speed,     \* hw->link_speed
    link_duplex,    \* hw->link_duplex
    if_drv_flags,   \* ifp->if_drv_flags
    if_link_state,  \* what if_link_state_change last told the stack
    (* device registers *)
    IMR,            \* ALX_IMR
    ISR,            \* ALX_ISR: asserted causes, and DIS when disabled
    (* execution *)
    alx_mtx,        \* owner of sc->alx_mtx
    ops,            \* log of the lock-holding handler now or last running
    i_pc,           \* position of alx_init
    lt_pending,     \* sc->alx_link_task is queued on taskqueue_swi
    lt_pc,          \* position of alx_link_task
    ul,             \* the latest alx_update_link call: report, state at entry
    run,            \* the current run of identical link-up reports
    irq_log,        \* register writes of the latest alx_irq_legacy call
    (* transmit queue *)
    pidx,           \* sc->alx_tx_queue.pidx
    cidx,           \* sc->alx_tx_queue.cidx
    count,          \* sc->alx_tx_queue.count
    tpd_hdr,        \* the descriptor ring
    bf_info,        \* the buffer-tracking slots
    TPD_PIDX,       \* register ALX_TPD_PRI0_PIDX
    TPD_CIDX,       \* register ALX_TPD_PRI0_CIDX
    map_pkt,        \* for each DMA map, the packet loaded into it or NULL
    if_snd,         \* ifp->if_snd
    s_pc,           \* position of alx_start / alx_xmit
    m_head,         \* *m_head of the running alx_xmit
    retries,        \* collapse-and-retry rounds of the running alx_xmit
    x_in,           \* pidx and the consumer index read at entry of alx_xmit
    x_ret,          \* outcome of the latest alx_xmit
    next_pkt,       \* next packet the stack will enqueue
    freed,          \* packets freed by m_freem
    outstanding,    \* descriptors handed to hardware and not completed
    (* the interrupt filter followed statement by statement, and the lock  *)
    (* assertions                                                          *)
    q_pc,           \* position of alx_irq_legacy
    q_intr,         \* its local `intr`
    lock_assert,    \* functions whose ALX_LOCK_ASSERT found the lock not held
    (* packets followed through the transmit path, and the detach           *)
    taken,          \* packets dequeued by the current alx_start_locked call
    accepted,       \* packets for which alx_xmit returned 0
    d_pc            \* position of alx_detach

devvars == <<irq_sem, imask, link_up, link_speed, link_duplex, if_drv_flags,
             if_link_state, IMR, ISR>>
txvars == <<pidx, cidx, count, tpd_hdr, bf_info, TPD_PIDX, map_pkt, m_head,
            retries, x_in, x_ret, freed>>
taskvars == <<lt_pending, lt_pc>>
auxvars == <<q_pc, q_intr, lock_assert, taken, accepted, d_pc>>
vars == <<devvars, txvars, taskvars, auxvars, alx_mtx, ops, i_pc, ul, run,
          irq_log, TPD_CIDX, if_snd, s_pc, next_pkt, outstanding>>

(***************************************************************************)
(* The device-side state as one record, so that a handler is the           *)
(* composition of the functions it calls.                                  *)
(***************************************************************************)
Dev ==
    [irq_sem |-> irq_sem, imask |-> imask, link_up |-> link_up,
     link_speed |-> link_speed, link_duplex |-> link_duplex,
     if_drv_flags |-> if_drv_flags, if_link_state |-> if_link_state,
     IMR |-> IMR, ISR |-> ISR, ops |-> ops]

SetDev(d) ==
    /\ irq_sem' = d.irq_sem
    /\ imask' = d.imask
    /\ link_up' = d.link_up
    /\ link_speed' = d.link_speed
    /\ link_duplex' = d.link_duplex
    /\ if_drv_flags' = d.if_drv_flags
    /\ if_link_state' = d.if_link_state
    /\ IMR' = d.IMR
    /\ ISR' = d.ISR
    /\ ops' = d.ops

Log(d, e) == [d EXCEPT !.ops = Append(@, e)]

(* ALX_MEM_W32(hw, ALX_ISR, v): set status bits written as 1 are            *)
(* acknowledged, the DIS bit is taken as written.                          *)
W_ISR(d, v) ==
    [d EXCEPT !.ISR = (IF ALX_ISR_DIS \in v THEN {ALX_ISR_DIS} ELSE {})
                      \cup ((@ \ {ALX_ISR_DIS}) \ v)]

W_IMR(d, v) == [d EXCEPT !.IMR = v]

(***************************************************************************)
(* alx_intr_enable / alx_intr_disable: the reentrant interrupt switch.     *)
(***************************************************************************)
(* mutant: the enable writes the mask whatever the counter was *)
alx_intr_enable_AlwaysWrite(d) ==
    LET old == d.irq_sem
        d1 == Log([d EXCEPT !.irq_sem = old - 1], "alx_intr_enable")
    IN  W_IMR(W_ISR(d1, {}), d1.imask)

alx_intr_enable(d) ==
    LET old == d.irq_sem                       \* atomic_fetchadd_int(.., -1)
        d1 == Log([d EXCEPT !.irq_sem = old - 1], "alx_intr_enable")
    IN  IF old # 1 THEN d1
        ELSE W_IMR(W_ISR(d1, {}), d1.imask)

alx_intr_disable(d) ==
    LET d1 == Log([d EXCEPT !.irq_sem = @ + 1], "alx_intr_disable")
    IN  W_IMR(W_ISR(d1, {ALX_ISR_DIS}), {})

(***************************************************************************)
(* alx_stop: clear RUNNING and OACTIVE, disable interrupts.                *)
(***************************************************************************)
alx_stop(d) ==
    alx_intr_disable(
        [d EXCEPT !.if_drv_flags = @ \ {IFF_DRV_RUNNING, IFF_DRV_OACTIVE}])

(***************************************************************************)
(* alx_reset: PCIe reset, PHY reset unless the PHY is configured, MAC      *)
(* reset. A failed MAC reset is printed; the function returns nothing.     *)
(***************************************************************************)
alx_reset(d, phy_cfged, mac_error) ==
    LET d1 == Log(d, "alx_reset_pcie")
        d2 == IF phy_cfged THEN d1 ELSE Log(d1, "alx_reset_phy")
    IN  IF mac_error THEN Log(d2, "alx_reset_mac: failed")
        ELSE Log(d2, "alx_reset_mac")

(***************************************************************************)
(* The register and mask part of alx_init_rx_ring and alx_init_tx_ring.    *)
(***************************************************************************)
alx_init_rx_ring(d) ==
    Log([d EXCEPT !.imask = @ \cup {ALX_ISR_RX_Q0}], "alx_init_rx_ring")

alx_init_tx_ring(d) ==
    Log([d EXCEPT !.imask = @ \cup {ALX_ISR_TX_Q0}], "alx_init_tx_ring")

(* the loop of alx_init_tx_ring over the buffer ring *)
InitTxBufs(bf) == [i \in Slots |-> [bf[i] EXCEPT !.m = NULL]]

(***************************************************************************)
(* alx_update_link: the link state machine. rep is what alx_get_phy_link   *)
(* returns, and whether alx_reset_mac fails on the way down.               *)
(***************************************************************************)
(* mutant: the duplex digit taken with the wrong modulus *)
LinkUpPath_WrongModulus(d, speed) ==
    LET duplex == speed % 100
        d1 == [d EXCEPT !.link_duplex = duplex, !.link_speed = speed - duplex]
        d2 == Log(d1, "alx_post_phy_link: up")
        d3 == Log(d2, "alx_enable_aspm: l0s, l1")
        d4 == Log(d3, "alx_start_mac")
    IN  Log([d4 EXCEPT !.if_link_state = "UP"], "if_link_state_change: UP")

(* mutant: the link-up path without the MAC start *)
LinkUpPath_NoStartMac(d, speed) ==
    LET duplex == speed % 10
        d1 == [d EXCEPT !.link_duplex = duplex, !.link_speed = speed - duplex]
        d2 == Log(d1, "alx_post_phy_link: up")
        d3 == Log(d2, "alx_enable_aspm: l0s, l1")
    IN  Log([d3 EXCEPT !.if_link_state = "UP"], "if_link_state_change: UP")

LinkUpPath(d, speed) ==
    LET duplex == speed % 10
        d1 == [d EXCEPT !.link_duplex = duplex, !.link_speed = speed - duplex]
        d2 == Log(d1, "alx_post_phy_link: up")
        d3 == Log(d2, "alx_enable_aspm: l0s, l1")
        d4 == Log(d3, "alx_start_mac")
    IN  Log([d4 EXCEPT !.if_link_state = "UP"], "if_link_state_change: UP")

(* mutant: the tear-down forgets to enable interrupts again *)
LinkDownPath_NoEnable(d, mac_error) ==
    LET d1 == [d EXCEPT !.link_duplex = 0, !.link_speed = 0]
    IN  IF mac_error THEN Log(d1, "alx_reset_mac: failed")
        ELSE
          LET d2 == alx_intr_disable(Log(d1, "alx_reset_mac"))
              d3 == Log(d2, "alx_configure_basic")
              d4 == Log(d3, "alx_configure_rss")
              d5 == Log(d4, "alx_enable_aspm: no l0s, l1")
              d6 == Log(d5, "alx_post_phy_link: down")
          IN  Log([d6 EXCEPT !.if_link_state = "DOWN"],
                  "if_link_state_change: DOWN")

(* mutant: interrupts are disabled before the MAC reset is tried *)
LinkDownPath_DisableFirst(d, mac_error) ==
    LET d1 == alx_intr_disable([d EXCEPT !.link_duplex = 0, !.link_speed = 0])
    IN  IF mac_error THEN Log(d1, "alx_reset_mac: failed")
        ELSE
          LET d2 == Log(d1, "alx_reset_mac")
              d3 == Log(d2, "alx_configure_basic")
              d4 == Log(d3, "alx_configure_rss")
              d5 == Log(d4, "alx_enable_aspm: no l0s, l1")
              d6 == Log(d5, "alx_post_phy_link: down")
              d7 == alx_intr_enable(d6)
          IN  Log([d7 EXCEPT !.if_link_state = "DOWN"],
                  "if_link_state_change: DOWN")

LinkDownPath(d, mac_error) ==
    LET d1 == [d EXCEPT !.link_duplex = 0, !.link_speed = 0]
    IN  IF mac_error THEN Log(d1, "alx_reset_mac: failed")
        ELSE
          LET d2 == alx_intr_disable(Log(d1, "alx_reset_mac"))
              d3 == Log(d2, "alx_configure_basic")
              d4 == Log(d3, "alx_configure_rss")
              d5 == Log(d4, "alx_enable_aspm: no l0s, l1")
              d6 == Log(d5, "alx_post_phy_link: down")
              d7 == alx_intr_enable(d6)
          IN  Log([d7 EXCEPT !.if_link_state = "DOWN"],
                  "if_link_state_change: DOWN")

(* mutant: the call does not test whether the interface is running *)
alx_update_link_NoRunningCheck(d, rep) ==
    IF rep.error THEN d
    ELSE IF ~rep.link_up /\ ~d.link_up THEN d
    ELSE
      LET prev_speed == d.link_speed + d.link_duplex
          prev_link_up == d.link_up
          d1 == [d EXCEPT !.link_up = rep.link_up]
      IN  IF rep.link_up
          THEN IF prev_link_up /\ prev_speed = rep.speed THEN d1
               ELSE LinkUpPath(d1, rep.speed)
          ELSE LinkDownPath(d1, rep.mac_error)

(* mutant: no early return for a report equal to the stored state *)
alx_update_link_NoSameCheck(d, rep) ==
    IF rep.error THEN d
    ELSE IF (~rep.link_up /\ ~d.link_up)
            \/ IFF_DRV_RUNNING \notin d.if_drv_flags THEN d
    ELSE
      LET d1 == [d EXCEPT !.link_up = rep.link_up]
      IN  IF rep.link_up
          THEN LinkUpPath(d1, rep.speed)
          ELSE LinkDownPath(d1, rep.mac_error)

alx_update_link(d, rep) ==
    IF rep.error THEN d
    ELSE IF (~rep.link_up /\ ~d.link_up)
            \/ IFF_DRV_RUNNING \notin d.if_drv_flags THEN d
    ELSE
      LET prev_speed == d.link_speed + d.link_duplex
          prev_link_up == d.link_up
          d1 == [d EXCEPT !.link_up = rep.link_up]
      IN  IF rep.link_up
          THEN IF prev_link_up /\ prev_speed = rep.speed THEN d1
               ELSE LinkUpPath(d1, rep.speed)
          ELSE LinkDownPath(d1, rep.mac_error)

(* what is kept of a call of alx_update_link: the report and the state    *)
(* the call found                                                          *)
CallOf(d, rep) ==
    [rep |-> rep, link_up |-> d.link_up,
     speed |-> d.link_speed + d.link_duplex,
     running |-> IFF_DRV_RUNNING \in d.if_drv_flags, irq_sem |-> d.irq_sem]

NoCall ==
    [rep |-> NoReport, link_up |-> FALSE, speed |-> 0, running |-> FALSE,
     irq_sem |-> 0]

(* a call of alx_update_link, marked in the log *)
UpdateLinkCall(d, rep) ==
    Log(alx_update_link(Log(d, "alx_update_link"), rep),
        "alx_update_link: return")

(* the run of consecutive identical link-up reports, for counting what    *)
(* happens in it: none, or its speed, its length, the MAC starts and UP    *)
(* notifications in it, and whether the interface was running at its first *)
(* report                                                                  *)
NoRun ==
    [len |-> 0, speed |-> 0, reconf |-> 0, notified |-> 0, running |-> FALSE]

ULDelta(d, rep) ==
    SubSeq(alx_update_link(d, rep).ops, Len(d.ops) + 1,
           Len(alx_update_link(d, rep).ops))

CountOf(o, e) == Cardinality({k \in 1 .. Len(o) : o[k] = e})

Min(a, b) == IF a < b THEN a ELSE b

NextRun(d, rep) ==
    LET started == CountOf(ULDelta(d, rep), "alx_start_mac")
        told == CountOf(ULDelta(d, rep), "if_link_state_change: UP")
    IN  IF rep.error THEN run
        ELSE IF ~rep.link_up THEN NoRun
        ELSE IF run.len > 0 /\ run.speed = rep.speed
             THEN [run EXCEPT !.len = Min(@ + 1, MaxRun),
                              !.reconf = @ + started,
                              !.notified = @ + told]
        ELSE IF ~d.link_up
             THEN [len |-> 1, speed |-> rep.speed, reconf |-> started,
                   notified |-> told,
                   running |-> IFF_DRV_RUNNING \in d.if_drv_flags]
        ELSE NoRun

(***************************************************************************)
(* The state alx_attach leaves (alx_init_sw, alx_dma_alloc). ALX_ISR_MISC  *)
(* is a macro of alx_hw.h: a mask without and with the link-change cause   *)
(* are both started from, and so are both reset values of the DIS bit.     *)
(***************************************************************************)
Init ==
    /\ irq_sem = 1
    /\ imask \in {ALX_ISR_MISC, ALX_ISR_MISC \cup {ALX_ISR_PHY}}
    /\ link_up = FALSE
    /\ link_speed = 0
    /\ link_duplex = 0
    /\ if_drv_flags = {}
    /\ if_link_state = "UNKNOWN"
    /\ IMR = {}
    /\ ISR \in {{}, {ALX_ISR_DIS}}
    /\ alx_mtx = "free"
    /\ ops = <<>>
    /\ i_pc = "idle"
    /\ lt_pending = FALSE
    /\ lt_pc = "idle"
    /\ ul = NoCall
    /\ run = NoRun
    /\ irq_log = <<>>
    /\ pidx = 0
    /\ cidx = 0
    /\ count = 0
    /\ tpd_hdr = [i \in Slots |-> [pkt |-> NULL, seg |-> 0, eop |-> FALSE]]
    /\ bf_info = [i \in Slots |-> [m |-> NULL, dmamap |-> i]]
    /\ TPD_PIDX = 0
    /\ TPD_CIDX = 0
    /\ map_pkt = [i \in Slots |-> NULL]
    /\ if_snd = <<>>
    /\ s_pc = "idle"
    /\ m_head = NULL
    /\ retries = 0
    /\ x_in = [pidx |-> 0, cidx |-> 0, nsegs |-> 0, m |-> NULL]
    /\ x_ret = "none"
    /\ next_pkt = 1
    /\ freed = {}
    /\ outstanding = 0
    /\ q_pc = "idle"
    /\ q_intr = {}
    /\ lock_assert = {}
    /\ taken = {}
    /\ accepted = {}
    /\ d_pc = "idle"

(***************************************************************************)
(* alx_init / alx_ioctl(SIOCSIFFLAGS, up) -> alx_init_locked               *)
(***************************************************************************)
(* lines 1034-1035: the interface is running already *)
AlxInitRunning ==
    /\ alx_mtx = "free"
    /\ i_pc = "idle"
    /\ IFF_DRV_RUNNING \in if_drv_flags
    /\ ops' = <<>>
    /\ UNCHANGED <<devvars, txvars, taskvars, alx_mtx, i_pc, ul, run,
                   irq_log, TPD_CIDX, if_snd, s_pc, next_pkt, outstanding,
                   auxvars>>

(* lines 1037-1059, as a function of the device state *)
(* lines 1037-1043 *)
BringUpReset(d, phy_cfged, mac_error) ==
    Log(alx_reset(alx_stop(d), phy_cfged, mac_error), "alx_set_macaddr")

(* lines 1045-1046 *)
BringUpRings(d) == alx_init_tx_ring(alx_init_rx_ring(d))

(* lines 1048-1059 *)
BringUpConfigure(d) ==
    LET d4 == Log(d, "ALX_SRAM9: load pointers")
        d5 == Log(Log(d4, "alx_configure_basic"), "alx_configure_rss")
    IN  Log([d5 EXCEPT !.if_drv_flags =
                 (@ \cup {IFF_DRV_RUNNING}) \ {IFF_DRV_OACTIVE}],
            "IFF_DRV_RUNNING")

BringUp(d, phy_cfged, mac_error) ==
    BringUpConfigure(BringUpRings(BringUpReset(d, phy_cfged, mac_error)))

AlxInitBringUp(phy_cfged, mac_error) ==
    /\ alx_mtx = "free"
    /\ i_pc = "idle"
    /\ IFF_DRV_RUNNING \notin if_drv_flags
    /\ irq_sem < MaxIrqSem
    /\ alx_mtx' = "init"
    /\ i_pc' = "update_link"
    /\ SetDev(BringUp([Dev EXCEPT !.ops = <<>>], phy_cfged, mac_error))
    /\ pidx' = 0
    /\ cidx' = 0
    /\ count' = tx_ringsz
    /\ bf_info' = InitTxBufs(bf_info)
    /\ UNCHANGED <<tpd_hdr, TPD_PIDX, map_pkt, m_head, retries, x_in, x_ret,
                   freed, taskvars, ul, run, irq_log, TPD_CIDX, if_snd,
                   s_pc, next_pkt, outstanding,
                   auxvars>>

(* line 1061 *)
AlxInitUpdateLink(rep) ==
    /\ i_pc = "update_link"
    /\ i_pc' = "enable"
    /\ SetDev(UpdateLinkCall(Dev, rep))
    /\ ul' = CallOf(Dev, rep)
    /\ run' = NextRun(Dev, rep)
    /\ UNCHANGED <<txvars, taskvars, alx_mtx, irq_log, TPD_CIDX, if_snd, s_pc,
                   next_pkt, outstanding,
                   auxvars>>

(* lines 1063-1064, and the unlock of the caller *)
InitEnable(d) == alx_intr_enable(W_ISR(d, AllBits \ {ALX_ISR_DIS}))

AlxInitEnable ==
    /\ i_pc = "enable"
    /\ i_pc' = "idle"
    /\ alx_mtx' = "free"
    /\ SetDev(InitEnable(Dev))
    /\ UNCHANGED <<txvars, taskvars, ul, run, irq_log, TPD_CIDX, if_snd,
                   s_pc, next_pkt, outstanding,
                   auxvars>>

(***************************************************************************)
(* alx_ioctl(SIOCSIFFLAGS, down) -> alx_stop                               *)
(***************************************************************************)
AlxStop ==
    /\ alx_mtx = "free"
    /\ irq_sem < MaxIrqSem
    /\ SetDev(alx_stop([Dev EXCEPT !.ops = <<>>]))
    /\ UNCHANGED <<txvars, taskvars, alx_mtx, i_pc, ul, run, irq_log,
                   TPD_CIDX, if_snd, s_pc, next_pkt, outstanding,
                   auxvars>>

(***************************************************************************)
(* The device asserts a cause in the interrupt status register.            *)
(***************************************************************************)
HwRaise(c) ==
    /\ c \notin ISR
    /\ ISR' = ISR \cup {c}
    /\ UNCHANGED <<irq_sem, imask, link_up, link_speed, link_duplex,
                   if_drv_flags, if_link_state, IMR, txvars, taskvars, alx_mtx,
                   ops, i_pc, ul, run, irq_log, TPD_CIDX, if_snd, s_pc,
                   next_pkt, outstanding,
                   auxvars>>

(***************************************************************************)
(* alx_irq_legacy: the interrupt filter. It takes no lock.                 *)
(***************************************************************************)
IrqW(reg, v) == [op |-> reg, val |-> v]
IrqRet(r) == [op |-> "return", val |-> {r}]

(* mutant: the global-disable bit of the status is not looked at *)
IrqStray_NoDisCheck == (ISR \cap imask) = {}

IrqStray == ALX_ISR_DIS \in ISR \/ (ISR \cap imask) = {}

(* lines 841-853 as a function of the device state and the status read *)
IrqClaim(d, intr) ==
    LET d1 == W_ISR(d, intr \cup {ALX_ISR_DIS})
        hit == ALX_ISR_PHY \in (intr \cap d.imask)
        d2 == IF hit
              THEN W_IMR([d1 EXCEPT !.imask = @ \ {ALX_ISR_PHY}],
                         d1.imask \ {ALX_ISR_PHY})
              ELSE d1
    IN  W_ISR(d2, {})

IrqWrites(d, intr) ==
    <<IrqW("ISR", intr \cup {ALX_ISR_DIS})>>
    \o (IF ALX_ISR_PHY \in (intr \cap d.imask)
        THEN <<IrqW("imask", d.imask \ {ALX_ISR_PHY}),
               IrqW("IMR", d.imask \ {ALX_ISR_PHY}),
               IrqW("taskqueue_enqueue", {"alx_link_task"})>>
        ELSE <<>>)
    \o <<IrqW("ISR", {}), IrqRet("FILTER_HANDLED")>>

alx_irq_legacy ==
    IF IrqStray
    THEN /\ irq_log' = <<IrqRet("FILTER_STRAY")>>
         /\ UNCHANGED <<devvars, txvars, taskvars, alx_mtx, ops, i_pc, ul,
                        run, TPD_CIDX, if_snd, s_pc, next_pkt, outstanding,
                   auxvars>>
    ELSE /\ SetDev(IrqClaim(Dev, ISR))
         /\ irq_log' = IrqWrites(Dev, ISR)
         /\ lt_pending' = (lt_pending \/ ALX_ISR_PHY \in (ISR \cap imask))
         /\ UNCHANGED <<txvars, lt_pc, alx_mtx, i_pc, ul, run, TPD_CIDX,
                        if_snd, s_pc, next_pkt, outstanding,
                   auxvars>>

(***************************************************************************)
(* alx_link_task: the deferred link-change work, run from taskqueue_swi.   *)
(***************************************************************************)
(* mutant: the PHY cause is unmasked before the PHY interrupt is cleared *)
LinkTaskClear_RearmFirst(d) ==
    LET d1 == [d EXCEPT !.ops = <<>>, !.imask = @ \cup {ALX_ISR_PHY}]
    IN  Log(Log(W_IMR(d1, d1.imask), "IMR: unmask PHY"), "alx_clear_phy_intr")

(* line 817 *)
LinkTaskClear(d) == Log([d EXCEPT !.ops = <<>>], "alx_clear_phy_intr")

(* lines 819-820 *)
LinkTaskRearm(d) ==
    LET d1 == [d EXCEPT !.imask = @ \cup {ALX_ISR_PHY}]
    IN  Log(W_IMR(d1, d1.imask), "IMR: unmask PHY")

(* the task is taken off the queue; lines 815-817 *)
LinkTaskBegin ==
    /\ lt_pending
    /\ lt_pc = "idle"
    /\ alx_mtx = "free"
    /\ lt_pending' = FALSE
    /\ lt_pc' = "cleared"
    /\ alx_mtx' = "link_task"
    /\ SetDev(LinkTaskClear(Dev))
    /\ UNCHANGED <<txvars, i_pc, ul, run, irq_log, TPD_CIDX,
                   if_snd, s_pc, next_pkt, outstanding,
                   auxvars>>

(* lines 819-820 *)
LinkTaskUnmask ==
    /\ lt_pc = "cleared"
    /\ lt_pc' = "unmasked"
    /\ SetDev(LinkTaskRearm(Dev))
    /\ UNCHANGED <<txvars, lt_pending, alx_mtx, i_pc, ul, run, irq_log,
                   TPD_CIDX, if_snd, s_pc, next_pkt, outstanding,
                   auxvars>>

(* lines 822-824 *)
LinkTaskUpdateLink(rep) ==
    /\ lt_pc = "unmasked"
    /\ lt_pc' = "idle"
    /\ alx_mtx' = "free"
    /\ SetDev(UpdateLinkCall(Dev, rep))
    /\ ul' = CallOf(Dev, rep)
    /\ run' = NextRun(Dev, rep)
    /\ UNCHANGED <<txvars, lt_pending, i_pc, irq_log, TPD_CIDX, if_snd, s_pc,
                   next_pkt, outstanding,
                   auxvars>>

(***************************************************************************)
(* The network stack puts a packet on the interface send queue.            *)
(***************************************************************************)
IfEnqueue ==
    /\ next_pkt <= MaxPkts
    /\ Len(if_snd) < MaxQueue
    /\ if_snd' = Append(if_snd, next_pkt)
    /\ next_pkt' = next_pkt + 1
    /\ UNCHANGED <<devvars, txvars, taskvars, alx_mtx, ops, i_pc, ul, run,
                   irq_log, TPD_CIDX, s_pc, outstanding,
                   auxvars>>

(***************************************************************************)
(* The device completes one descriptor: the consumer index register moves  *)
(* towards the producer index register.                                    *)
(***************************************************************************)
ALX_TX_INC(i) == (i + 1) % tx_ringsz

HwComplete ==
    /\ TPD_CIDX # TPD_PIDX
    /\ TPD_CIDX' = ALX_TX_INC(TPD_CIDX)
    /\ outstanding' = outstanding - 1
    /\ UNCHANGED <<devvars, txvars, taskvars, alx_mtx, ops, i_pc, ul, run,
                   irq_log, if_snd, s_pc, next_pkt,
                   auxvars>>

(***************************************************************************)
(* alx_start -> alx_start_locked: the admission check, lines 1072-1091.    *)
(* The history variable `taken` is written where a specification composes  *)
(* StartEnter and StartDequeue: it is kept, or it follows the packets of   *)
(* the call (TakenReset, TakenAdd).                                        *)
(***************************************************************************)
TakenReset == taken' = {}
TakenAdd == taken' = taken \cup {Head(if_snd)}

StartEnter ==
    /\ s_pc = "idle"
    /\ alx_mtx = "free"
    /\ IFF_DRV_RUNNING \in if_drv_flags
    /\ IFF_DRV_OACTIVE \notin if_drv_flags
    /\ link_up
    /\ alx_mtx' = "start"
    /\ s_pc' = "loop"
    /\ ops' = <<>>
    /\ UNCHANGED <<devvars, txvars, taskvars, i_pc, ul, run, irq_log,
                   TPD_CIDX, if_snd, next_pkt, outstanding,
                   q_pc, q_intr, lock_assert, accepted, d_pc>>

(* lines 1093-1098 and 629-633: a packet is taken and alx_xmit entered *)
StartDequeue ==
    /\ s_pc = "loop"
    /\ if_snd # <<>>
    /\ m_head' = Head(if_snd)
    /\ if_snd' = Tail(if_snd)
    /\ x_in' = [pidx |-> pidx, cidx |-> TPD_CIDX, nsegs |-> 0, m |-> Head(if_snd)]
    /\ retries' = 0
    /\ x_ret' = "running"
    /\ s_pc' = "retry"
    /\ UNCHANGED <<devvars, pidx, cidx, count, tpd_hdr, bf_info, TPD_PIDX,
                   map_pkt, freed, taskvars, alx_mtx, ops, i_pc, ul, run,
                   irq_log, TPD_CIDX, next_pkt, outstanding,
                   q_pc, q_intr, lock_assert, accepted, d_pc>>

(* line 1093: the queue is empty; alx_start unlocks *)
StartDone ==
    /\ s_pc = "loop"
    /\ if_snd = <<>>
    /\ s_pc' = "idle"
    /\ alx_mtx' = "free"
    /\ UNCHANGED <<devvars, txvars, taskvars, ops, i_pc, ul, run, irq_log,
                   TPD_CIDX, if_snd, next_pkt, outstanding,
                   auxvars>>

(***************************************************************************)
(* alx_xmit. The DMA map used is that of the slot at the producer index.   *)
(***************************************************************************)
XmitMap == bf_info[x_in.pidx].dmamap

(* alx_xmit failed: lines 1098-1101, the packet goes back if it is still   *)
(* there, the loop is left and alx_start unlocks                           *)
XmitFail(ret, m) ==
    /\ x_ret' = ret
    /\ if_snd' = IF m # NULL THEN <<m>> \o if_snd ELSE if_snd
    /\ m_head' = NULL
    /\ s_pc' = "idle"
    /\ alx_mtx' = "free"

(* lines 639-646: too many segments, and m_collapse fails *)
XmitCollapseFail ==
    /\ s_pc = "retry"
    /\ freed' = freed \cup {m_head}
    /\ XmitFail("ENOBUFS", NULL)
    /\ UNCHANGED <<devvars, pidx, cidx, count, tpd_hdr, bf_info, TPD_PIDX,
                   map_pkt, retries, x_in, taskvars, ops, i_pc, ul, run,
                   irq_log, TPD_CIDX, next_pkt, outstanding,
                   auxvars>>

(* lines 639-649: too many segments, m_collapse succeeds, goto retry *)
XmitCollapseRetry ==
    /\ s_pc = "retry"
    /\ retries < MaxRetry
    /\ retries' = retries + 1
    /\ UNCHANGED <<devvars, pidx, cidx, count, tpd_hdr, bf_info, TPD_PIDX,
                   map_pkt, m_head, x_in, x_ret, freed, taskvars, alx_mtx, ops,
                   i_pc, ul, run, irq_log, TPD_CIDX, if_snd, s_pc,
                   next_pkt, outstanding,
                   auxvars>>

(* lines 650-652: the load fails with another error *)
XmitLoadError ==
    /\ s_pc = "retry"
    /\ XmitFail("EIO_LOAD", m_head)
    /\ UNCHANGED <<devvars, pidx, cidx, count, tpd_hdr, bf_info, TPD_PIDX,
                   map_pkt, retries, x_in, freed, taskvars, ops, i_pc, ul,
                   run, irq_log, TPD_CIDX, next_pkt, outstanding,
                   auxvars>>

(* lines 654-659: the load succeeds with no segment *)
XmitEmpty ==
    /\ s_pc = "retry"
    /\ freed' = freed \cup {m_head}
    /\ XmitFail("EIO", NULL)
    /\ UNCHANGED <<devvars, pidx, cidx, count, tpd_hdr, bf_info, TPD_PIDX,
                   map_pkt, retries, x_in, taskvars, ops, i_pc, ul, run,
                   irq_log, TPD_CIDX, next_pkt, outstanding,
                   auxvars>>

(* line 663: the test for enough descriptors *)
NoDescriptors(nsegs) == nsegs > count - 2

(* lines 661-667: not enough descriptors; the map is unloaded *)
XmitNoDesc(nsegs) ==
    /\ s_pc = "retry"
    /\ NoDescriptors(nsegs)
    /\ map_pkt' = [map_pkt EXCEPT ![XmitMap] = NULL]
    /\ x_in' = [x_in EXCEPT !.nsegs = nsegs]
    /\ XmitFail("ENOBUFS", m_head)
    /\ UNCHANGED <<devvars, pidx, cidx, count, tpd_hdr, bf_info, TPD_PIDX,
                   retries, freed, taskvars, ops, i_pc, ul, run, irq_log,
                   TPD_CIDX, next_pkt, outstanding,
                   auxvars>>

(* lines 669-678: one descriptor per segment from desci on; each carries   *)
(* the one segment `seg`; the last written one is marked end-of-packet     *)
RECURSIVE WriteDescs(_, _, _, _, _)
WriteDescs(td, desci, i, nsegs, m) ==
    IF i = nsegs THEN td
    ELSE WriteDescs(
             [td EXCEPT ![desci] = [pkt |-> m, seg |-> 0, eop |-> i = nsegs - 1]],
             ALX_TX_INC(desci), i + 1, nsegs, m)

RECURSIVE Advance(_, _)
Advance(desci, n) == IF n = 0 THEN desci ELSE Advance(ALX_TX_INC(desci), n - 1)

(* the slot tx_buf points to at line 684: the loop does not move it *)
XmitTxBuf(first, nsegs) == first

(* lines 683-692: the packet pointer is saved and the maps are swapped     *)
(* between tx_buf_mapped (the first slot) and tx_buf                       *)
SaveAndSwap(bf, first, nsegs, m, map) ==
    LET tb == XmitTxBuf(first, nsegs)
        bf1 == [bf EXCEPT ![tb].m = m]
        bf2 == [bf1 EXCEPT ![first].dmamap = bf1[tb].dmamap]
    IN  [bf2 EXCEPT ![tb].dmamap = map]

(* mutant: the producer register is written with the index of entry *)
XmitPublish_StaleRegister(nsegs) ==
    /\ s_pc = "retry"
    /\ nsegs >= 1
    /\ ~NoDescriptors(nsegs)
    /\ map_pkt' = [map_pkt EXCEPT ![XmitMap] = m_head]
    /\ tpd_hdr' = WriteDescs(tpd_hdr, x_in.pidx, 0, nsegs, m_head)
    /\ pidx' = Advance(x_in.pidx, nsegs)
    /\ bf_info' = SaveAndSwap(bf_info, x_in.pidx, nsegs, m_head, XmitMap)
    /\ TPD_PIDX' = x_in.pidx
    /\ outstanding' = outstanding + nsegs
    /\ x_in' = [x_in EXCEPT !.nsegs = nsegs]
    /\ x_ret' = "0"
    /\ m_head' = NULL
    /\ s_pc' = "loop"
    /\ accepted' = accepted \cup {m_head}
    /\ UNCHANGED <<devvars, cidx, count, retries, freed, taskvars, alx_mtx,
                   ops, i_pc, ul, run, irq_log, TPD_CIDX, if_snd, next_pkt,
                   q_pc, q_intr, lock_assert, taken, d_pc>>

(* lines 669-700: the packet is put on the ring and handed to the device *)
XmitPublish(nsegs) ==
    /\ s_pc = "retry"
    /\ nsegs >= 1
    /\ ~NoDescriptors(nsegs)
    /\ map_pkt' = [map_pkt EXCEPT ![XmitMap] = m_head]
    /\ tpd_hdr' = WriteDescs(tpd_hdr, x_in.pidx, 0, nsegs, m_head)
    /\ pidx' = Advance(x_in.pidx, nsegs)
    /\ bf_info' = SaveAndSwap(bf_info, x_in.pidx, nsegs, m_head, XmitMap)
    /\ TPD_PIDX' = Advance(x_in.pidx, nsegs)
    /\ outstanding' = outstanding + nsegs
    /\ x_in' = [x_in EXCEPT !.nsegs = nsegs]
    /\ x_ret' = "0"
    /\ m_head' = NULL
    /\ s_pc' = "loop"
    /\ accepted' = accepted \cup {m_head}
    /\ UNCHANGED <<devvars, cidx, count, retries, freed, taskvars, alx_mtx,
                   ops, i_pc, ul, run, irq_log, TPD_CIDX, if_snd, next_pkt,
                   q_pc, q_intr, lock_assert, taken, d_pc>>

(***************************************************************************)
(* The bring-up and the interrupt filter followed statement by statement.  *)
(* The filter takes no lock and runs on whatever CPU the interrupt is      *)
(* delivered to, so its statements interleave with those of the handler    *)
(* that holds the lock.                                                    *)
(***************************************************************************)
(* lines 1037-1043: alx_stop, alx_reset, alx_set_macaddr *)
InitStopReset(phy_cfged, mac_error) ==
    /\ alx_mtx = "free"
    /\ i_pc = "idle"
    /\ IFF_DRV_RUNNING \notin if_drv_flags
    /\ irq_sem < MaxIrqSem
    /\ alx_mtx' = "init"
    /\ i_pc' = "rings"
    /\ SetDev(BringUpReset([Dev EXCEPT !.ops = <<>>], phy_cfged, mac_error))
    /\ UNCHANGED <<txvars, taskvars, auxvars, ul, run, irq_log, TPD_CIDX,
                   if_snd, s_pc, next_pkt, outstanding>>

(* lines 1045-1046: alx_init_rx_ring, alx_init_tx_ring *)
InitRings ==
    /\ i_pc = "rings"
    /\ i_pc' = "configure"
    /\ SetDev(BringUpRings(Dev))
    /\ pidx' = 0
    /\ cidx' = 0
    /\ count' = tx_ringsz
    /\ bf_info' = InitTxBufs(bf_info)
    /\ UNCHANGED <<tpd_hdr, TPD_PIDX, map_pkt, m_head, retries, x_in, x_ret,
                   freed, taskvars, auxvars, alx_mtx, ul, run, irq_log,
                   TPD_CIDX, if_snd, s_pc, next_pkt, outstanding>>

(* lines 1048-1059 *)
InitConfigure ==
    /\ i_pc = "configure"
    /\ i_pc' = "update_link"
    /\ SetDev(BringUpConfigure(Dev))
    /\ UNCHANGED <<txvars, taskvars, auxvars, alx_mtx, ul, run, irq_log,
                   TPD_CIDX, if_snd, s_pc, next_pkt, outstanding>>

(* lines 837-842: the status is read; a stray interrupt returns, a claimed *)
(* one is acknowledged with the disable bit                                *)
IrqRead ==
    /\ q_pc = "idle"
    /\ IF IrqStray
       THEN /\ irq_log' = <<IrqRet("FILTER_STRAY")>>
            /\ UNCHANGED <<devvars, ops, q_pc, q_intr>>
       ELSE /\ SetDev(W_ISR(Dev, ISR \cup {ALX_ISR_DIS}))
            /\ irq_log' = <<IrqW("ISR", ISR \cup {ALX_ISR_DIS})>>
            /\ q_intr' = ISR
            /\ q_pc' = "claimed"
    /\ UNCHANGED <<txvars, taskvars, lock_assert, alx_mtx, i_pc, ul, run,
                   TPD_CIDX, if_snd, s_pc, next_pkt, outstanding,
                   taken, accepted, d_pc>>

(* mutant: the mask register is not rewritten *)
IrqMaskPhy_NoImrWrite(d, intr) ==
    IF ALX_ISR_PHY \in (intr \cap d.imask)
    THEN [dev |-> [d EXCEPT !.imask = @ \ {ALX_ISR_PHY}],
          log |-> <<IrqW("imask", d.imask \ {ALX_ISR_PHY}),
                    IrqW("taskqueue_enqueue", {"alx_link_task"})>>,
          enqueue |-> TRUE]
    ELSE [dev |-> d, log |-> <<>>, enqueue |-> FALSE]

(* lines 844-849 as a function of the device state and `intr`: the new     *)
(* state, the writes in their order, whether the link task is enqueued     *)
IrqMaskPhy(d, intr) ==
    IF ALX_ISR_PHY \in (intr \cap d.imask)
    THEN LET d1 == [d EXCEPT !.imask = @ \ {ALX_ISR_PHY}]
         IN  [dev |-> W_IMR(d1, d1.imask),
              log |-> <<IrqW("imask", d1.imask), IrqW("IMR", d1.imask),
                        IrqW("taskqueue_enqueue", {"alx_link_task"})>>,
              enqueue |-> TRUE]
    ELSE [dev |-> d, log |-> <<>>, enqueue |-> FALSE]

IrqMask ==
    /\ q_pc = "claimed"
    /\ q_pc' = "rearm"
    /\ SetDev(IrqMaskPhy(Dev, q_intr).dev)
    /\ irq_log' = irq_log \o IrqMaskPhy(Dev, q_intr).log
    /\ lt_pending' = (lt_pending \/ IrqMaskPhy(Dev, q_intr).enqueue)
    /\ UNCHANGED <<txvars, lt_pc, q_intr, lock_assert, alx_mtx, i_pc, ul, run,
                   TPD_CIDX, if_snd, s_pc, next_pkt, outstanding,
                   taken, accepted, d_pc>>

(* lines 851-853 *)
IrqReturn ==
    /\ q_pc = "rearm"
    /\ q_pc' = "idle"
    /\ q_intr' = {}
    /\ SetDev(W_ISR(Dev, {}))
    /\ irq_log' = irq_log \o <<IrqW("ISR", {}), IrqRet("FILTER_HANDLED")>>
    /\ UNCHANGED <<txvars, taskvars, lock_assert, alx_mtx, i_pc, ul, run,
                   TPD_CIDX, if_snd, s_pc, next_pkt, outstanding,
                   taken, accepted, d_pc>>

(* the reports followed where the filter is followed step by step *)
IrqReports ==
    {r \in PhyReports : r.error \/ (r.speed \in {0, 1001} /\ ~r.mac_error)}

(***************************************************************************)
(* alx_shutdown: alx_stop is called without ALX_LOCK, so the assertion of  *)
(* line 708 finds the lock not owned. Followed as a kernel without         *)
(* INVARIANTS runs it: the assertion is compiled out and alx_stop goes on, *)
(* whoever holds the lock. It is called once; nothing it does is logged in *)
(* `ops`, the log of the handler that holds the lock.                      *)
(***************************************************************************)
AlxShutdown ==
    /\ lock_assert = {}
    /\ irq_sem < MaxIrqSem
    /\ lock_assert' = {"alx_stop"}
    /\ SetDev([alx_stop(Dev) EXCEPT !.ops = ops])
    /\ UNCHANGED <<txvars, taskvars, q_pc, q_intr, alx_mtx, i_pc, ul, run,
                   irq_log, TPD_CIDX, if_snd, s_pc, next_pkt, outstanding,
                   taken, accepted, d_pc>>

(***************************************************************************)
(* alx_detach and alx_free_legacy_irq. alx_detach calls neither alx_stop   *)
(* nor alx_intr_disable, so the device keeps raising interrupts while it   *)
(* runs. taskqueue_drain sleeps until the task is neither queued nor       *)
(* running; bus_teardown_intr waits for a running filter and removes it.   *)
(***************************************************************************)
DetachRest ==
    UNCHANGED <<devvars, txvars, taskvars, alx_mtx, ops, i_pc, ul, run,
                irq_log, TPD_CIDX, if_snd, s_pc, next_pkt, outstanding,
                q_pc, q_intr, lock_assert, taken, accepted>>

(* lines 1273-1288: no handler of the control path is running *)
DetachEnter ==
    /\ d_pc = "idle"
    /\ alx_mtx = "free"
    /\ i_pc = "idle"
    /\ s_pc = "idle"
    /\ d_pc' = "ifdetached"
    /\ DetachRest

(* lines 905-909: taskqueue_drain(taskqueue_swi, &sc->alx_link_task) *)
FreeIrqDrain ==
    /\ d_pc = "ifdetached"
    /\ ~lt_pending
    /\ lt_pc = "idle"
    /\ d_pc' = "drained"
    /\ DetachRest

(* lines 911-912: bus_teardown_intr *)
FreeIrqTeardown ==
    /\ d_pc = "drained"
    /\ q_pc = "idle"
    /\ d_pc' = "torn_down"
    /\ DetachRest

(* lines 914-916: the interrupt resource is released and                   *)
(* alx_free_legacy_irq returns                                             *)
FreeIrqReturn ==
    /\ d_pc = "torn_down"
    /\ d_pc' = "returned"
    /\ DetachRest

(* the filter is installed from bus_setup_intr (line 877) until            *)
(* bus_teardown_intr (line 912)                                            *)
HandlerInstalled == d_pc \in {"idle", "ifdetached", "drained"}

(***************************************************************************)
(* The interrupt switch by itself: alx_intr_disable and alx_intr_enable    *)
(* called in any paired order from the enabled state (irq_sem = 0, IMR =   *)
(* hw->imask), for every mask, while the device asserts causes. `ops` is   *)
(* the calls since the switch was last fully enabled.                      *)
(***************************************************************************)
InitSem ==
    /\ irq_sem = 0
    /\ imask \in (SUBSET (AllBits \ {ALX_ISR_DIS})) \ {{}}
    /\ IMR = imask
    /\ ISR = {}
    /\ link_up = FALSE
    /\ link_speed = 0
    /\ link_duplex = 0
    /\ if_drv_flags = {}
    /\ if_link_state = "UNKNOWN"
    /\ alx_mtx = "free"
    /\ ops = <<>>
    /\ i_pc = "idle"
    /\ lt_pending = FALSE
    /\ lt_pc = "idle"
    /\ ul = NoCall
    /\ run = NoRun
    /\ irq_log = <<>>
    /\ pidx = 0
    /\ cidx = 0
    /\ count = 0
    /\ tpd_hdr = [i \in Slots |-> [pkt |-> NULL, seg |-> 0, eop |-> FALSE]]
    /\ bf_info = [i \in Slots |-> [m |-> NULL, dmamap |-> i]]
    /\ TPD_PIDX = 0
    /\ TPD_CIDX = 0
    /\ map_pkt = [i \in Slots |-> NULL]
    /\ if_snd = <<>>
    /\ s_pc = "idle"
    /\ m_head = NULL
    /\ retries = 0
    /\ x_in = [pidx |-> 0, cidx |-> 0, nsegs |-> 0, m |-> NULL]
    /\ x_ret = "none"
    /\ next_pkt = 1
    /\ freed = {}
    /\ outstanding = 0
    /\ q_pc = "idle"
    /\ q_intr = {}
    /\ lock_assert = {}
    /\ taken = {}
    /\ accepted = {}
    /\ d_pc = "idle"

SemDisable ==
    /\ irq_sem < MaxIrqSem
    /\ Len(ops) + irq_sem + 2 <= 2 * MaxIrqSem
    /\ SetDev(alx_intr_disable(
                  [Dev EXCEPT !.ops = IF irq_sem = 0 THEN <<>> ELSE @]))
    /\ UNCHANGED <<txvars, taskvars, auxvars, alx_mtx, i_pc, ul, run, irq_log,
                   TPD_CIDX, if_snd, s_pc, next_pkt, outstanding>>

SemEnable ==
    /\ irq_sem > 0
    /\ SetDev(alx_intr_enable(Dev))
    /\ UNCHANGED <<txvars, taskvars, auxvars, alx_mtx, i_pc, ul, run, irq_log,
                   TPD_CIDX, if_snd, s_pc, next_pkt, outstanding>>

NextSem ==
    \/ SemDisable
    \/ SemEnable
    \/ \E c \in Causes : HwRaise(c)

SpecSem == InitSem /\ [][NextSem]_vars

(***************************************************************************)
(* Specifications                                                          *)
(***************************************************************************)
NextInit ==
    \/ AlxInitRunning
    \/ \E c, e \in BOOLEAN : AlxInitBringUp(c, e)
    \/ \E rep \in PhyReports : AlxInitUpdateLink(rep)
    \/ AlxInitEnable

NextLink ==
    \/ NextInit
    \/ AlxStop
    \/ \E c \in Causes : HwRaise(c)
    \/ alx_irq_legacy
    \/ LinkTaskBegin
    \/ LinkTaskUnmask
    \/ \E rep \in PhyReports : LinkTaskUpdateLink(rep)

NextTx ==
    \/ NextInit
    \/ IfEnqueue
    \/ HwComplete
    \/ StartEnter /\ UNCHANGED taken
    \/ StartDequeue /\ UNCHANGED taken
    \/ StartDone
    \/ XmitCollapseFail
    \/ XmitCollapseRetry
    \/ XmitLoadError
    \/ XmitEmpty
    \/ \E n \in 1 .. MaxSegs : XmitNoDesc(n)
    \/ \E n \in 1 .. MaxSegs : XmitPublish(n)

NextIrq ==
    \/ AlxInitRunning
    \/ \E c, e \in BOOLEAN : InitStopReset(c, e)
    \/ InitRings
    \/ InitConfigure
    \/ \E rep \in IrqReports : AlxInitUpdateLink(rep)
    \/ AlxInitEnable
    \/ AlxStop
    \/ \E c \in Causes : HwRaise(c)
    \/ IrqRead
    \/ IrqMask
    \/ IrqReturn
    \/ LinkTaskBegin
    \/ LinkTaskUnmask
    \/ \E rep \in IrqReports : LinkTaskUpdateLink(rep)

(* the transmit path as far as it succeeds, with alx_shutdown *)
NextDown ==
    \/ NextInit
    \/ AlxShutdown
    \/ IfEnqueue
    \/ StartEnter /\ UNCHANGED taken
    \/ StartDequeue /\ UNCHANGED taken
    \/ StartDone
    \/ \E n \in 1 .. MaxSegs : XmitNoDesc(n)
    \/ \E n \in 1 .. MaxSegs : XmitPublish(n)

(* the transmit path, with the packets of each alx_start_locked call kept *)
NextAdmit ==
    \/ NextInit
    \/ IfEnqueue
    \/ HwComplete
    \/ StartEnter /\ TakenReset
    \/ StartDequeue /\ TakenAdd
    \/ StartDone
    \/ XmitCollapseFail
    \/ XmitCollapseRetry
    \/ XmitLoadError
    \/ XmitEmpty
    \/ \E n \in 1 .. MaxSegs : XmitNoDesc(n)
    \/ \E n \in 1 .. MaxSegs : XmitPublish(n)

(* the bring-up, the interrupt filter and the link task, with alx_detach *)
NextDetach ==
    \/ d_pc = "idle" /\ AlxInitRunning
    \/ d_pc = "idle" /\ \E c, e \in BOOLEAN : AlxInitBringUp(c, e)
    \/ d_pc = "idle" /\ \E rep \in IrqReports : AlxInitUpdateLink(rep)
    \/ d_pc = "idle" /\ AlxInitEnable
    \/ \E c \in Causes : HwRaise(c)
    \/ HandlerInstalled /\ IrqRead
    \/ IrqMask
    \/ IrqReturn
    \/ LinkTaskBegin
    \/ LinkTaskUnmask
    \/ \E rep \in IrqReports : LinkTaskUpdateLink(rep)
    \/ DetachEnter
    \/ FreeIrqDrain
    \/ FreeIrqTeardown
    \/ FreeIrqReturn

Next == NextLink \/ NextTx

SpecLink == Init /\ [][NextLink]_vars
SpecTx == Init /\ [][NextTx]_vars
SpecDown == Init /\ [][NextDown]_vars
SpecIrq == Init /\ [][NextIrq]_vars
SpecAdmit == Init /\ [][NextAdmit]_vars
SpecDetach == Init /\ [][NextDetach]_vars
Spec == Init /\ [][Next]_vars

(***************************************************************************)
(* Properties                                                              *)
(***************************************************************************)
Has(o, e) == \E k \in 1 .. Len(o) : o[k] = e
Index(o, e) == CHOOSE k \in 1 .. Len(o) : o[k] = e

(* the part of a handler's log written inside alx_update_link *)
ULOps(o) ==
    IF Has(o, "alx_update_link") /\ Has(o, "alx_update_link: return")
    THEN SubSeq(o, Index(o, "alx_update_link") + 1,
                Index(o, "alx_update_link: return") - 1)
    ELSE <<>>

(* a step that is one whole call of alx_update_link *)
ULStep ==
    \/ i_pc = "update_link" /\ i_pc' = "enable"
    \/ lt_pc = "unmasked" /\ lt_pc' = "idle"

(* a step in which alx_xmit returns *)
XmitReturns == s_pc = "retry" /\ s_pc' # "retry"

(* free slots of the ring as alx_xmit finds it: the capacity less the      *)
(* descriptors between the consumer index it read and the producer index   *)
FreeSlots == tx_ringsz - ((x_in.pidx - x_in.cidx) % tx_ringsz)

(* C1: over every sequence of alx_xmit calls, the descriptors handed to    *)
(* the hardware and not yet completed never exceed capacity - 2.           *)
C1_RingNeverOvercommitted == outstanding <= tx_ringsz - 2

(* C2: when the segment count of the packet exceeds the free slots less    *)
(* the margin of 2, alx_xmit fails with ENOBUFS, the mapping is released   *)
(* and indices, producer register, descriptors and slots are unchanged.    *)
C2_InsufficientDescriptorsRejected ==
    [][(XmitReturns /\ x_in'.nsegs >= 1 /\ x_in'.nsegs > FreeSlots - 2)
         => /\ x_ret' = "ENOBUFS"
            /\ map_pkt'[XmitMap] = NULL
            /\ UNCHANGED <<pidx, cidx, TPD_PIDX, tpd_hdr, bf_info>>]_vars

(* C3: inside one alx_xmit the collapse-and-retry after a segment          *)
(* overflow happens at most once.                                          *)
C3_RetryAtMostOnce == retries <= 1

(* C7: after a successful alx_xmit of n descriptors the packet pointer and *)
(* the loaded map are in the slot of the last descriptor, for n > 1 the    *)
(* first slot holds the unloaded map the last slot had, and exactly one    *)
(* slot holds the loaded map of the packet.                                *)
LastSlot(first, n) == (first + n - 1) % tx_ringsz

PhyRearmed ==
    /\ ALX_ISR_PHY \notin imask
    /\ ALX_ISR_PHY \in imask' \/ ALX_ISR_PHY \in IMR'

(* C4, as claimed: once masked, the PHY bit comes back in hw->imask and    *)
(* IMR only when alx_update_link has completed in the link task.           *)
C4_RearmOnlyAfterUpdateLink ==
    [][PhyRearmed => Has(ops', "alx_update_link: return")]_vars

(* C4, amended: once masked, the PHY bit comes back in hw->imask and IMR   *)
(* only in alx_link_task, under the lock, after alx_clear_phy_intr and     *)
(* before alx_update_link is called.                                       *)
C4_RearmAfterClearBeforeUpdate ==
    [][PhyRearmed => /\ alx_mtx = "link_task"
                     /\ ops = <<"alx_clear_phy_intr">>
                     /\ lt_pc' = "unmasked"
                     /\ ~Has(ops', "alx_update_link")]_vars

C4_Witness ==
    /\ lt_pc = "unmasked"
    /\ ALX_ISR_PHY \in imask
    /\ ALX_ISR_PHY \in IMR
    /\ Has(irq_log, IrqW("taskqueue_enqueue", {"alx_link_task"}))

(* C5: whenever alx_init_locked completes a bring-up, irq_sem is 0 and the *)
(* interrupt mask register holds hw->imask.                                *)
C5_BringUpEnablesInterrupts ==
    [][(i_pc = "enable" /\ i_pc' = "idle")
         => (irq_sem' = 0 /\ IMR' = imask')]_vars

(* C6: if the MAC reset of the bring-up fails, no ring is programmed       *)
(* afterwards, interrupts stay disabled and the interface is not marked    *)
(* running.                                                                *)
BringUpLog(o) ==
    Len(o) >= 2 /\ o[1] = "alx_intr_disable" /\ o[2] = "alx_reset_pcie"

C6_ResetFailureAborts ==
    \A k \in 1 .. Len(ops) :
        (/\ BringUpLog(ops)
         /\ ops[k] = "alx_reset_mac: failed"
         /\ \A j \in 1 .. k : ops[j] # "alx_update_link")
        => /\ \A j \in (k + 1) .. Len(ops) :
                  ops[j] \notin {"alx_init_rx_ring", "alx_init_tx_ring"}
           /\ IFF_DRV_RUNNING \notin if_drv_flags
           /\ irq_sem >= 1

(* ---- alx_update_link ---- *)
SameReport ==
    /\ ULStep
    /\ link_up
    /\ ~ul'.rep.error
    /\ ul'.rep.link_up
    /\ ul'.rep.speed = link_speed + link_duplex

(* C8, as claimed: a link-up report equal to the stored state changes      *)
(* nothing and reconfigures nothing, and in every run of identical link-up *)
(* reports from DOWN the MAC start and the UP notification happen exactly  *)
(* once.                                                                   *)
C8_LinkUpExactlyOnce ==
    [][/\ SameReport => (UNCHANGED devvars /\ ULOps(ops') = <<>>)
       /\ run'.len >= 1 => (run'.reconf = 1 /\ run'.notified = 1)]_vars

(* C8, amended: the same, with exactly once when the interface is running  *)
(* at the first report of the run, and never more than once.               *)
C8_LinkUpOnceWhenRunning ==
    [][/\ SameReport => (UNCHANGED devvars /\ ULOps(ops') = <<>>)
       /\ run'.len >= 1 => /\ run'.reconf <= 1
                           /\ run'.notified <= 1
                           /\ run'.running
                                => (run'.reconf = 1 /\ run'.notified = 1)]_vars

C8_Witness ==
    /\ run.len >= 2
    /\ run.running
    /\ run.reconf = 1
    /\ ul.link_up
    /\ ul.rep.link_up
    /\ ul.rep.speed = ul.speed

SpeedChange ==
    /\ ULStep
    /\ IFF_DRV_RUNNING \in if_drv_flags
    /\ link_up
    /\ ~ul'.rep.error
    /\ ul'.rep.link_up
    /\ ul'.rep.speed # link_speed + link_duplex

TearDownOps ==
    <<"alx_reset_mac", "alx_intr_disable", "alx_configure_basic",
      "alx_configure_rss", "alx_enable_aspm: no l0s, l1",
      "alx_post_phy_link: down", "alx_intr_enable",
      "if_link_state_change: DOWN">>

LinkUpOps ==
    <<"alx_post_phy_link: up", "alx_enable_aspm: l0s, l1", "alx_start_mac",
      "if_link_state_change: UP">>

(* C9, as claimed: a link-up report with another speed/duplex while the    *)
(* link is up tears the MAC down as for UP -> DOWN and notifies DOWN.      *)
C9_SpeedChangeTearsDown ==
    [][SpeedChange => /\ ULOps(ops') = TearDownOps
                      /\ if_link_state' = "DOWN"]_vars

(* C9, amended: such a report does not tear down; the new speed/duplex is  *)
(* stored, the link-up reconfiguration runs and UP is notified; there is   *)
(* no MAC reset, no interrupt disable or enable and no DOWN notification.  *)
C9_SpeedChangeReconfiguresUp ==
    [][SpeedChange => /\ ULOps(ops') = LinkUpOps
                      /\ link_up'
                      /\ link_duplex' = ul'.rep.speed % 10
                      /\ link_speed' + link_duplex' = ul'.rep.speed
                      /\ if_link_state' = "UP"
                      /\ irq_sem' = irq_sem]_vars

C9_Witness ==
    /\ ul.running
    /\ ul.link_up
    /\ ~ul.rep.error
    /\ ul.rep.link_up
    /\ ul.rep.speed # ul.speed
    /\ Has(ULOps(ops), "alx_start_mac")
    /\ link_speed + link_duplex = ul.rep.speed

DownResetFails ==
    /\ ULStep
    /\ IFF_DRV_RUNNING \in if_drv_flags
    /\ link_up
    /\ ~ul'.rep.error
    /\ ~ul'.rep.link_up
    /\ ul'.rep.mac_error

C11_StrayIsPure ==
    [][(irq_log' # irq_log
        /\ (ALX_ISR_DIS \in ISR \/ (ISR \cap imask) = {}))
         => /\ irq_log' = <<IrqRet("FILTER_STRAY")>>
            /\ UNCHANGED <<devvars, lt_pending, lt_pc>>]_vars

C11_Witness ==
    /\ irq_log = <<IrqRet("FILTER_STRAY")>>
    /\ ALX_ISR_DIS \in ISR
    /\ (ISR \cap imask) # {}
    /\ ~lt_pending

(* ---- decoding of the PHY report ---- *)
LinkComesUp ==
    /\ ULStep
    /\ IFF_DRV_RUNNING \in if_drv_flags
    /\ ~link_up
    /\ ~ul'.rep.error
    /\ ul'.rep.link_up

LinkGoesDown ==
    /\ ULStep
    /\ IFF_DRV_RUNNING \in if_drv_flags
    /\ link_up
    /\ ~ul'.rep.error
    /\ ~ul'.rep.link_up
    /\ ~ul'.rep.mac_error

(* C20: on UP -> DOWN with a successful MAC reset alx_update_link runs, in *)
(* this order, MAC reset, interrupt disable, basic and RSS configuration,  *)
(* ASPM without L0s, the post-link-down notification of the PHY, interrupt *)
(* enable and one DOWN notification; then link_up is false, speed and      *)
(* duplex are 0 and irq_sem is what it was on entry.                       *)
C20_TearDownInOrder ==
    [][LinkGoesDown
         => /\ ULOps(ops') = TearDownOps
            /\ ~link_up'
            /\ link_speed' = 0
            /\ link_duplex' = 0
            /\ if_link_state' = "DOWN"
            /\ irq_sem' = irq_sem]_vars

C20_Witness ==
    /\ ul.running
    /\ ul.link_up
    /\ ~ul.rep.error
    /\ ~ul.rep.link_up
    /\ ~ul.rep.mac_error
    /\ ULOps(ops) = TearDownOps
    /\ ~link_up
    /\ irq_sem = ul.irq_sem

(* ---- the indices of the transmit ring ---- *)
(* C15: a successful alx_xmit of n segments moves the producer index from  *)
(* p to (p + n) mod capacity, inside [0, capacity), writes that value to   *)
(* the producer register and leaves the software consumer index alone.     *)
C15_ProducerAdvancesModulo ==
    [][(XmitReturns /\ x_ret' = "0")
         => /\ pidx = x_in.pidx
            /\ pidx' = (pidx + x_in'.nsegs) % tx_ringsz
            /\ pidx' \in 0 .. (tx_ringsz - 1)
            /\ TPD_PIDX' = pidx'
            /\ cidx' = cidx]_vars

(* three single-segment packets on the empty ring: 0 -> 1 -> 2 -> 3 *)
C15_Witness ==
    /\ x_ret = "0"
    /\ pidx = 3
    /\ TPD_PIDX = 3
    /\ cidx = 0
    /\ TPD_CIDX = 0
    /\ \A i \in 0 .. 2 : tpd_hdr[i].pkt = i + 1 /\ tpd_hdr[i].eop

(* ---- reclamation of transmitted packets ---- *)
(* C17: a packet alx_xmit placed in a slot is, once the hardware has       *)
(* completed it, reclaimed exactly once: pointer cleared, map unloaded.    *)
(* Stated where a run can show it: when alx_xmit takes a slot while the    *)
(* hardware has completed everything handed to it, the slot is free and    *)
(* its map is not loaded.                                                  *)
C17_CompletedPacketReclaimed ==
    [][(XmitReturns /\ x_ret' = "0" /\ outstanding = 0)
         => /\ bf_info[x_in.pidx].m = NULL
            /\ map_pkt[XmitMap] = NULL]_vars

(* ---- the interrupt switch ---- *)
LastOp == IF ops' = <<>> THEN "none" ELSE ops'[Len(ops')]

(* C16: alx_intr_disable always increments irq_sem and clears IMR;         *)
(* alx_intr_enable always decrements irq_sem and writes IMR = hw->imask    *)
(* only when the counter comes to 0; so from the enabled state the         *)
(* hardware is masked as long as a disable is not yet paired, and is       *)
(* enabled by the enable that pairs the first one.                         *)
C16_ReentrantCounter ==
    [][(ops' # ops)
         => /\ LastOp = "alx_intr_disable"
                 => (irq_sem' = irq_sem + 1 /\ IMR' = {})
            /\ LastOp = "alx_intr_enable"
                 => /\ irq_sem' = irq_sem - 1
                    /\ irq_sem' = 0 => IMR' = imask'
                    /\ irq_sem' # 0 => IMR' = IMR
            /\ irq_sem' > 0 => IMR' = {}
            /\ irq_sem' = 0 => (IMR' = imask' /\ ALX_ISR_DIS \notin ISR')]_vars

C16_Witness ==
    /\ ops = <<"alx_intr_disable", "alx_intr_disable",
               "alx_intr_enable", "alx_intr_enable">>
    /\ irq_sem = 0
    /\ imask # {}
    /\ IMR = imask

(* ---- the transmit admission check ---- *)
(* a step that takes a packet off if_snd and enters alx_xmit *)
StartDequeues == s_pc = "loop" /\ s_pc' = "retry"

(* C13: while hw->link_up is false or the interface is not running,        *)
(* alx_start_locked dequeues no packet, alx_xmit is not entered, no        *)
(* descriptor is written and the producer register is not written.         *)
C13_NoTransmitWhileDown ==
    [][(~link_up \/ IFF_DRV_RUNNING \notin if_drv_flags)
         => /\ ~StartDequeues
            /\ if_snd' = if_snd \/ Len(if_snd') > Len(if_snd)
            /\ tpd_hdr' = tpd_hdr
            /\ TPD_PIDX' = TPD_PIDX]_vars

(* ---- the device lock ---- *)
(* C14: every function that changes shared device, link or ring state runs *)
(* with the device lock held by its caller, from every entry point: no     *)
(* ALX_LOCK_ASSERT ever finds the lock not owned.                          *)
C14_LockHeldByCaller == lock_assert = {}

(* ---- the interrupt filter on a link-change interrupt ---- *)
Enqueued(log) == Has(log, IrqW("taskqueue_enqueue", {"alx_link_task"}))

(* the writes of a claimed link-change interrupt, in their order *)
PhyClaimLog(log) ==
    /\ Len(log) = 6
    /\ log[1].op = "ISR" /\ ALX_ISR_DIS \in log[1].val
    /\ log[2].op = "imask" /\ ALX_ISR_PHY \notin log[2].val
    /\ log[3] = IrqW("IMR", log[2].val)
    /\ log[4] = IrqW("taskqueue_enqueue", {"alx_link_task"})
    /\ log[5] = IrqW("ISR", {})
    /\ log[6] = IrqRet("FILTER_HANDLED")

FilterReturns == q_pc = "rearm" /\ q_pc' = "idle"

(* C18, as claimed: on a claimed interrupt with the PHY cause the filter   *)
(* writes status-with-disable to ISR, clears PHY in hw->imask, writes the  *)
(* mask to IMR, enqueues the link task, writes 0 to ISR and returns        *)
(* FILTER_HANDLED; on return PHY is clear in hw->imask and IMR and the     *)
(* link task is pending.                                                   *)
C18_FilterOrderAndResult ==
    [][(FilterReturns /\ Enqueued(irq_log))
         => /\ PhyClaimLog(irq_log')
            /\ ALX_ISR_PHY \notin imask'
            /\ ALX_ISR_PHY \notin IMR'
            /\ lt_pending']_vars

(* C18, amended: the same writes in the same order, the masks written      *)
(* without the PHY bit and the task pending once enqueued; nothing is said *)
(* of hw->imask, IMR and the task queue on return, when alx_link_task may  *)
(* have run already.                                                       *)
C18_FilterOrder ==
    [][/\ (FilterReturns /\ Enqueued(irq_log)) => PhyClaimLog(irq_log')
       /\ (q_pc = "claimed" /\ q_pc' = "rearm"
           /\ ALX_ISR_PHY \in (q_intr \cap imask))
            => /\ Enqueued(irq_log')
               /\ ALX_ISR_PHY \notin imask'
               /\ Has(irq_log', IrqW("IMR", imask'))
               /\ lt_pending']_vars

C18_Witness ==
    /\ q_pc = "idle"
    /\ PhyClaimLog(irq_log)
    /\ ALX_ISR_PHY \in imask
    /\ ALX_ISR_PHY \in IMR
    /\ ~lt_pending

(* ---- ring programming inside the bring-up ---- *)
(* C19: in every bring-up the rings are programmed after the MAC reset and *)
(* before the interrupt mask register becomes non-zero, also when the      *)
(* interrupt filter and the link task interleave with the bring-up.        *)
C19_RingsBetweenResetAndEnable ==
    [][(i_pc = "rings" /\ i_pc' = "configure")
         => /\ Has(ops, "alx_reset_mac") \/ Has(ops, "alx_reset_mac: failed")
            /\ IMR = {}
            /\ IMR' = {}]_vars

(* the call of alx_update_link of this step found nothing to do: the PHY  *)
(* reports the link down and the stored state is down, or the interface   *)
(* is not running                                                          *)
NothingToDo ==
    /\ ULStep
    /\ \/ ~ul'.rep.error /\ ~ul'.rep.link_up /\ ~ul'.link_up
       \/ ~ul'.running

(* C21: alx_update_link is a no-op when the PHY reports down and the       *)
(* stored state is already down, or when the interface is not running      *)
(* whatever the PHY reports: link_up, link_speed, link_duplex, irq_sem and *)
(* the registers are unchanged, no MAC/PHY reconfiguration runs and the    *)
(* observer is not notified.                                               *)
C21_NoOpWhenDownOrNotRunning ==
    [][NothingToDo =>
         /\ UNCHANGED <<link_up, link_speed, link_duplex, irq_sem, imask,
                        IMR, ISR, if_link_state, if_drv_flags>>
         /\ ULOps(ops') = <<>>]_vars

(* a call made while the interface is not running, with the PHY reporting *)
(* the link up, has returned                                               *)
C21_Witness ==
    /\ Has(ops, "alx_update_link: return")
    /\ ~ul.running
    /\ ~ul.rep.error
    /\ ul.rep.link_up

StartReturns == s_pc # "idle" /\ s_pc' = "idle"

(* the three places of a packet after alx_start_locked: a tracking slot    *)
(* refers to it and its descriptors are on the ring; it is back at the     *)
(* head of the send queue; it was freed                                    *)
OnRing(p, bf, td) ==
    /\ \E i \in Slots : bf[i].m = p
    /\ \E j \in Slots : td[j].pkt = p

PutBack(p, q) == q # <<>> /\ Head(q) = p

PlacesOf(p, bf, td, q, fr) ==
    (IF OnRing(p, bf, td) THEN 1 ELSE 0)
    + (IF PutBack(p, q) THEN 1 ELSE 0)
    + (IF p \in fr THEN 1 ELSE 0)

C24_ObserverAgreesWithLink ==
    [][ULStep =>
         \/ if_link_state' = "UNKNOWN" /\ ~link_up'
         \/ if_link_state' = "UP" /\ link_up'
         \/ if_link_state' = "DOWN" /\ ~link_up']_vars

(* interrupts are off in the hardware: the mask register is 0 and the      *)
(* status register holds the global-disable bit                            *)
HwIntrOff(mask_reg, status_reg) ==
    mask_reg = {} /\ ALX_ISR_DIS \in status_reg

(* C25: hardware interrupts stay off while logically disabled: under any   *)
(* interleaving of alx_irq_legacy, alx_link_task, alx_stop,                *)
(* alx_init_locked and alx_update_link, while irq_sem > 0 the interrupt    *)
(* mask register is 0 and the status register's global-disable bit is set; *)
(* no step taken with irq_sem > 0 before and after it turns them on again. *)
C25_DisabledStaysOff ==
    [][(irq_sem > 0 /\ irq_sem' > 0 /\ HwIntrOff(IMR, ISR))
          => HwIntrOff(IMR', ISR')]_vars

(* C26: once alx_free_legacy_irq, called from alx_detach, has returned, no *)
(* instance of alx_link_task is pending or running (and none can be        *)
(* enqueued afterwards, the filter being removed), for every interleaving  *)
(* in which the device raises interrupts during the teardown.              *)
C26_TeardownQuiescesLinkTask ==
    d_pc = "returned" => (~lt_pending /\ lt_pc = "idle")

(* the tracking slots that refer to packet p *)
SlotsOf(p) == {i \in Slots : bf_info[i].m = p}

(* C27: no in-flight packet reference is ever lost: across any sequence of *)
(* alx_xmit, alx_stop and alx_init_locked, every packet accepted by        *)
(* alx_xmit and not yet freed is referenced by exactly one tracking slot.  *)
C27_AcceptedPacketTracked ==
    \A p \in accepted \ freed : Cardinality(SlotsOf(p)) = 1

====
